---- MODULE Spec2Model ----
(***************************************************************************)
(* The evaluation harness of Ape-prompt-engineer.                          *)
(*                                                                         *)
(*   src/ape/evaluate/evaluate.py    Evaluate: cooperative dispatch only   *)
(*   src/peter/evaluate/evaluate.py  Evaluate: cooperative dispatch and    *)
(*                                   worker-thread dispatch with SIGINT    *)
(*                                   cancellation                          *)
(*   src/ape/optimizer/mipro/mipro_with_hil.py                             *)
(*                                   MIPROWithHIL: the study controller    *)
(*                                                                         *)
(* A behaviour of the evaluation is one Evaluate instance and one call of  *)
(* Evaluate.__call__ on it; a behaviour of the optimizer is one persisted  *)
(* study and the calls of its controllers.  The specifications share the   *)
(* variables:                                                              *)
(*   SpecCoop       _execute_single_thread_async (ape and peter)           *)
(*   SpecCalls      several cooperative calls of __call__ on one instance  *)
(*   SpecMT         _execute_multi_thread_async (peter)                    *)
(*   SpecReconcile  the collection loop and the reconciliation of          *)
(*                  __call__ fed with per-item results in any order        *)
(*   SpecEither     __call__ of peter, whichever dispatcher it takes       *)
(*   SpecEitherScheduled  the same with the scheduling of the event loop   *)
(*                  and of the pool                                        *)
(*   SpecStudy      MIPROWithHIL over one persisted study                  *)
(*   SpecProcesses  create_or_load_study of two processes on one study     *)
(*   SpecHistory    create_history_string (peter) on bounded trial logs    *)
(***************************************************************************)
EXTENDS Integers, Sequences, FiniteSets, TLC

(***************************************************************************)
(* Bounds of the model.                                                    *)
(***************************************************************************)
\* largest dataset
MaxN == 3
\* largest error budget max_errors
MaxErrors == 3
\* largest batch_size (ape) and num_threads (peter) drawn
MaxBatch == 2
\* SIGINTs delivered in one behaviour
MaxInterrupts == 2
\* width of the significand of a float (CPython: 53)
SignificandBits == 3
\* trials asked of one study
MaxTrials == 3
\* calls of __call__ on one Evaluate instance
MaxCalls == 2
\* trials in the trial_logs passed to create_history_string
MaxLogs == 4
\* the largest top_n passed to create_history_string
MaxTop == 2

(***************************************************************************)
(* Program constants.                                                      *)
(***************************************************************************)
\* asyncio.Semaphore(20) of peter's cooperative dispatcher
PeterSem == 20

VARIABLES
    \* ---- arguments and construction ------------------------------------
    devN,            \* len(devset); the items are devset[0..devN-1]
    batch_size,      \* capacity of the admission gate (ape: batch_size, peter: 20)
    num_threads,     \* size of the thread pool (worker-thread mode)
    max_errors,      \* self.max_errors
    default_handler, \* what signal.getsignal(SIGINT) returns before the run
    return_all_scores,
    return_outputs,
    \* ---- Evaluate instance ---------------------------------------------
    error_count,     \* self.error_count
    error_lock,      \* self.error_lock: -1 free, else the item whose worker holds it
    cancel_jobs,     \* self.cancel_jobs.is_set()
    \* ---- per-item tasks ------------------------------------------------
    wpc,             \* position of the task of item i
    wcur,            \* current_error_count of the worker of item i (0: not read)
    wres,            \* what the task of item i resolved with (<< >>: nothing yet)
    sem,             \* permits left in the semaphore
    gather_exc,      \* exception set on the gather future (item, -1 none)
    invoked,         \* items whose wrapped_program was called
    completed,       \* the items whose task returned, in completion order
    \* ---- SIGINT --------------------------------------------------------
    sigint,          \* installed handler: "previous" or "interrupt_handler"
    hpc,             \* position inside interrupt_handler
    interrupts,      \* SIGINTs delivered so far
    prev_calls,      \* calls of the previous handler made by interrupt_handler
    \* ---- dispatcher and __call__ ---------------------------------------
    dpc,             \* position of the dispatcher / __call__
    results,         \* cooperative mode: what gather returned
    reordered_devset,
    ncorrect,
    ntotal,
    progress,        \* the calls of _update_progress: result reported and tally
    ret,             \* what __call__ computed and returned (<< >>: none)
    raised,          \* exception that left __call__ (<<"none", -1>>: none)
    \* ---- earlier calls of __call__ on the same instance ----------------
    calls,           \* calls of __call__ made on the instance so far
    recorded,        \* placeholder results the workers of earlier calls returned
    stale,           \* workers of earlier calls that have not finished
    \* ---- the persisted study (optuna RDBStorage) -----------------------
    study_exists,    \* the study of the name is in the storage
    trials,          \* study.trials, trial number n at position n + 1
    user_attrs,      \* study.user_attrs
    \* ---- MIPROWithHIL instance ------------------------------------------
    storage,         \* self.storage: "RDBStorage" or "None"
    instruction_candidates,
    fewshot_candidates,
    \* ---- the caller of the controller ----------------------------------
    handle,          \* the caller holds the Study a create_or_load_study returned
    issued,          \* numbers of the trials a suggest_next_prompt returned
    held,            \* the prompt objects the caller holds for its pending trials
    generations,     \* calls of proposer.generate_candidates made by the last call
    ocall,           \* the last call of the controller, its arguments, and the
                     \* attributes create_or_load_study found in the storage
    oret,            \* what the last call returned (<< >>: it raised)
    oraised,         \* what the last call raised (<<"none", -1>>: it returned)
    \* ---- controllers in several processes ------------------------------
    procs,           \* per process: position in create_or_load_study, the pool
                     \* of instruction candidates it holds
    \* ---- create_history_string ------------------------------------------
    trial_logs,      \* the argument trial_logs, in the order of its keys
    top_n,           \* the argument top_n
    history          \* whether the call returned, and the string it returned

inputs == <<devN, batch_size, num_threads, max_errors, default_handler,
            return_all_scores, return_outputs>>
instance == <<error_count, error_lock, cancel_jobs>>
tasks == <<wpc, wcur, wres, sem, gather_exc, invoked, completed>>
sig == <<sigint, hpc, interrupts, prev_calls>>
disp == <<dpc, results, reordered_devset, ncorrect, ntotal, progress, ret, raised>>
past == <<calls, recorded, stale>>
persisted == <<study_exists, trials, user_attrs>>
controller == <<storage, instruction_candidates, fewshot_candidates>>
caller == <<handle, issued, held, generations, ocall, oret, oraised>>
proposer == <<trial_logs, top_n, history>>
opt == <<persisted, controller, caller, procs, proposer>>
vars == <<inputs, instance, tasks, sig, disp, past, opt>>

Items == 0 .. devN - 1

(***************************************************************************)
(* Values.                                                                 *)
(***************************************************************************)
None == -1
NoResult == << >>
NoException == <<"none", None>>

\* devset[i]
Example(i) == 100 + i
\* what `await prompt(**inputs)` returns for item i when it does not raise
Prediction(i) == <<"out", i>>
\* what metric(example, prediction) returns for item i when it does not raise
Metric(i) == (i + 1) % 2
\* the placeholder prediction {} of a tolerated failure
EmptyPrediction == << >>
\* job_cancelled = "cancelled"
job_cancelled == <<"cancelled">>
\* the exception raised by the prompt or the metric of item i
ItemException(i) == <<"Exception", i>>

(***************************************************************************)
(* No optimizer: the state of the study variables during an evaluation.    *)
(***************************************************************************)
\* study.user_attrs of a study just created
NoAttrs == [keys |-> {}, prompt_candidates |-> << >>, fewshot_candidates |-> << >>]

\* no call of the controller has been made
NoCall == [op |-> "none"]

\* MIPROWithHIL.__init__: the class defaults of the candidate lists; no
\* study in the storage yet
NewController ==
    /\ instruction_candidates = << >>
    /\ fewshot_candidates = << >>
    /\ handle = FALSE
    /\ ocall = NoCall
    /\ oret = NoResult
    /\ oraised = NoException

\* create_history_string is not called
NotCalled == [returned |-> FALSE, value |-> << >>]

NoHistory ==
    /\ trial_logs = << >>
    /\ top_n = 0
    /\ history = NotCalled

\* the first call of __call__ on an instance just constructed
FirstCall ==
    /\ calls = 1
    /\ recorded = 0
    /\ stale = 0

EmptyStorage ==
    /\ study_exists = FALSE
    /\ trials = << >>
    /\ user_attrs = NoAttrs
    /\ issued = {}
    /\ held = << >>
    /\ generations = 0
    /\ procs = << >>

(***************************************************************************)
(* Arithmetic of the scores.                                               *)
(*                                                                         *)
(* A score is a Python number.  `ncorrect += score` on floats is the exact *)
(* sum rounded to the nearest float, ties to even.  The model keeps that   *)
(* rule on non-negative integer-valued floats and reduces the width of the *)
(* significand from 53 bits to SignificandBits.                            *)
(***************************************************************************)
RECURSIVE Pow2(_)
Pow2(n) == IF n = 0 THEN 1 ELSE 2 * Pow2(n - 1)

\* the weight of the last place of the float nearest to x >= 0
RECURSIVE Ulp(_, _)
Ulp(x, u) == IF x < u * Pow2(SignificandBits) THEN u ELSE Ulp(x, 2 * u)

\* x >= 0 rounded to the nearest float, ties to even
FRound(x) ==
    LET u == Ulp(x, 1)
        q == x \div u
        r == x % u
    IN  IF 2 * r > u \/ (2 * r = u /\ q % 2 = 1) THEN (q + 1) * u ELSE q * u

\* mutant: a score above 1 is clamped to 1 before it is added
ScoreAdd_Clamped(a, b) == FRound(a + (IF b > 1 THEN 1 ELSE b))

\* ncorrect + score
ScoreAdd(a, b) == FRound(a + b)

\* round(100 * ncorrect / ntotal, 2), in hundredths; ntotal > 0
Average(nc, nt) ==
    LET q == (10000 * nc) \div nt
        r == (10000 * nc) % nt
    IN  IF 2 * r > nt \/ (2 * r = nt /\ q % 2 = 1) THEN q + 1 ELSE q

(***************************************************************************)
(* sorted(reordered_devset): tuples compare by their first component, the  *)
(* index, which is unique among the results of one run.                    *)
(***************************************************************************)
RECURSIVE Insert(_, _)
Insert(t, s) ==
    IF s = << >> THEN <<t>>
    ELSE IF t[1] <= Head(s)[1] THEN <<t>> \o s
    ELSE <<Head(s)>> \o Insert(t, Tail(s))

\* mutant: the results are left in arrival order
Sorted_Unsorted(s) == s

RECURSIVE Sorted(_)
Sorted(s) == IF s = << >> THEN << >> ELSE Insert(Head(s), Sorted(Tail(s)))

(***************************************************************************)
(* wrapped_program: one item's worker.                                     *)
(*                                                                         *)
(* Workers interleave wherever the code can be left: coroutines at an      *)
(* await, threads between any two statements.  The model steps a worker    *)
(* statement by statement, which covers both.                              *)
(***************************************************************************)
\* return example_idx, example, prediction, score
ScoredResult(i) == <<i, Example(i), Prediction(i), Metric(i)>>
\* return example_idx, example, {}, 0.0
PlaceholderResult(i) == <<i, Example(i), EmptyPrediction, 0>>

\* mutant: the gate admits without a free permit
GateOpen_Unbounded == TRUE

\* async with sem: a permit is free
GateOpen == sem > 0

\* mutant: the counter is updated without holding the lock
LockFree_NoLock == TRUE

\* with self.error_lock: the lock is free
LockFree == error_lock = None

\* mutant: the threshold is compared with > instead of >=
BudgetExhausted_OffByOne(c) == c > max_errors

\* if current_error_count >= self.max_errors
BudgetExhausted(c) == c >= max_errors

\* bounded_process_item: async with sem, then the call of the prompt
Admit(i) ==
    /\ wpc[i] = "gate"
    /\ GateOpen
    /\ sem' = sem - 1
    /\ wpc' = [wpc EXCEPT ![i] = "prompt"]
    /\ invoked' = invoked \cup {i}
    /\ UNCHANGED <<opt, past, inputs, instance, wcur, wres, gather_exc, completed, sig, disp>>

\* the prompt and the metric return: the worker returns its result, the
\* permit is released
Succeed(i) ==
    /\ wpc[i] = "prompt"
    /\ wres' = [wres EXCEPT ![i] = ScoredResult(i)]
    /\ wpc' = [wpc EXCEPT ![i] = "done"]
    /\ sem' = sem + 1
    /\ completed' = Append(completed, i)
    /\ UNCHANGED <<opt, past, inputs, instance, wcur, gather_exc, invoked, sig, disp>>

\* the prompt or the metric raises: except Exception as e
Fail(i) ==
    /\ wpc[i] = "prompt"
    /\ wpc' = [wpc EXCEPT ![i] = "except"]
    /\ UNCHANGED <<opt, past, inputs, instance, wcur, wres, sem, gather_exc, invoked, completed,
                   sig, disp>>

\* with self.error_lock:
Acquire(i) ==
    /\ wpc[i] = "except"
    /\ LockFree
    /\ error_lock' = i
    /\ wpc' = [wpc EXCEPT ![i] = "increment"]
    /\ UNCHANGED <<opt, past, inputs, error_count, cancel_jobs, wcur, wres, sem, gather_exc,
                   invoked, completed, sig, disp>>

\* self.error_count += 1
Increment(i) ==
    /\ wpc[i] = "increment"
    /\ error_count' = error_count + 1
    /\ wpc' = [wpc EXCEPT ![i] = "read"]
    /\ UNCHANGED <<opt, past, inputs, error_lock, cancel_jobs, wcur, wres, sem, gather_exc,
                   invoked, completed, sig, disp>>

\* current_error_count = self.error_count, and the lock is released
ReadRelease(i) ==
    /\ wpc[i] = "read"
    /\ wcur' = [wcur EXCEPT ![i] = error_count]
    /\ error_lock' = IF error_lock = i THEN None ELSE error_lock
    /\ wpc' = [wpc EXCEPT ![i] = "check"]
    /\ UNCHANGED <<opt, past, inputs, error_count, cancel_jobs, wres, sem, gather_exc, invoked,
                   completed, sig, disp>>

\* if current_error_count >= self.max_errors: raise e
\* the exception leaves the task, the permit is released, and gather keeps
\* the first exception for its caller
Reraise(i) ==
    /\ wpc[i] = "check"
    /\ BudgetExhausted(wcur[i])
    /\ wpc' = [wpc EXCEPT ![i] = "raised"]
    /\ sem' = sem + 1
    /\ gather_exc' = IF gather_exc = None THEN i ELSE gather_exc
    /\ UNCHANGED <<opt, past, inputs, instance, wcur, wres, invoked, completed, sig, disp>>

\* logger.error(...); return example_idx, example, {}, 0.0
Tolerate(i) ==
    /\ wpc[i] = "check"
    /\ ~BudgetExhausted(wcur[i])
    /\ wres' = [wres EXCEPT ![i] = PlaceholderResult(i)]
    /\ wpc' = [wpc EXCEPT ![i] = "done"]
    /\ sem' = sem + 1
    /\ completed' = Append(completed, i)
    /\ UNCHANGED <<opt, past, inputs, instance, wcur, gather_exc, invoked, sig, disp>>

(***************************************************************************)
(* _execute_single_thread_async and the rest of __call__.                  *)
(***************************************************************************)
\* mutant: gather cancels the tasks that have not finished when one raises
GatherRaise_CancelsOthers ==
    /\ dpc = "gather"
    /\ gather_exc # None
    /\ dpc' = "done"
    /\ raised' = ItemException(gather_exc)
    /\ wpc' = [i \in Items |-> IF wpc[i] \in {"done", "raised"} THEN wpc[i] ELSE "cancelled"]
    /\ UNCHANGED <<opt, past, inputs, instance, wcur, wres, sem, gather_exc, invoked,
                   completed, sig, results, reordered_devset, ncorrect, ntotal, progress, ret>>

\* results = await asyncio.gather(*tasks): a task raised; gather hands the
\* first exception to its caller and leaves the other tasks running
GatherRaise ==
    /\ dpc = "gather"
    /\ gather_exc # None
    /\ dpc' = "done"
    /\ raised' = ItemException(gather_exc)
    /\ UNCHANGED <<opt, past, inputs, instance, tasks, sig, results, reordered_devset, ncorrect,
                   ntotal, progress, ret>>

\* results = await asyncio.gather(*tasks): every task returned; the results
\* are in the order of the tasks
GatherReturn ==
    /\ dpc = "gather"
    /\ gather_exc = None
    /\ \A i \in Items : wpc[i] = "done"
    /\ results' = [k \in 1 .. devN |-> wres[k - 1]]
    /\ dpc' = "collect"
    /\ UNCHANGED <<opt, past, inputs, instance, tasks, sig, reordered_devset, ncorrect, ntotal,
                   progress, ret, raised>>

\* self._update_progress(pbar, ncorrect, ntotal), called for the result res
Report(res, nc, nt) == [item |-> res[1], ncorrect |-> nc, ntotal |-> nt]

\* for result in results: reordered_devset.append(...); ncorrect += score;
\* ntotal += 1; self._update_progress(pbar, ncorrect, ntotal)
Collect ==
    /\ dpc = "collect"
    /\ Len(reordered_devset) < Len(results)
    /\ LET result == results[Len(reordered_devset) + 1]
       IN  /\ reordered_devset' = Append(reordered_devset, result)
           /\ ncorrect' = ScoreAdd(ncorrect, result[4])
           /\ ntotal' = ntotal + 1
           /\ progress' = Append(progress, Report(result, ncorrect', ntotal'))
    /\ UNCHANGED <<opt, past, inputs, instance, tasks, sig, dpc, results, ret, raised>>

\* results = [(example, prediction, score) for _, example, prediction, score
\* in predicted_devset]
Outputs(predicted_devset) ==
    [k \in 1 .. Len(predicted_devset) |->
        <<predicted_devset[k][2], predicted_devset[k][3], predicted_devset[k][4]>>]

\* mutant: the scores are listed as the results arrived
AllScores_Arrival(predicted_devset) ==
    [k \in 1 .. Len(reordered_devset) |-> reordered_devset[k][4]]

\* [score for *_, score in predicted_devset]
AllScores(predicted_devset) ==
    [k \in 1 .. Len(predicted_devset) |-> predicted_devset[k][4]]

\* result_df = pd.DataFrame(data): one row per element of predicted_devset,
\* the example merged with the prediction, and the score
DataFrame(predicted_devset) ==
    [k \in 1 .. Len(predicted_devset) |->
        [example |-> predicted_devset[k][2],
         prediction |-> predicted_devset[k][3],
         correct |-> predicted_devset[k][4]]]

\* the four return statements of __call__
Returned(average, predicted_devset) ==
    IF return_all_scores /\ return_outputs
    THEN <<average, Outputs(predicted_devset), AllScores(predicted_devset)>>
    ELSE IF return_all_scores THEN <<average, AllScores(predicted_devset)>>
    ELSE IF return_outputs THEN <<average, Outputs(predicted_devset)>>
    ELSE <<average>>

\* predicted_devset = sorted(reordered_devset), the table, and the value
\* __call__ returns
Reconciled ==
    LET predicted_devset == Sorted(reordered_devset)
    IN  [average |-> Average(ncorrect, ntotal),
         predicted_devset |-> predicted_devset,
         result_df |-> DataFrame(predicted_devset),
         returned |-> Returned(Average(ncorrect, ntotal), predicted_devset)]

\* mutant: an empty tally is reported as the average 0
Return_DefaultZero ==
    /\ ret' = IF ntotal = 0
              THEN [average |-> 0, predicted_devset |-> << >>, result_df |-> << >>,
                    returned |-> Returned(0, << >>)]
              ELSE Reconciled
    /\ raised' = raised
    /\ dpc' = "done"

\* the rest of __call__ after the dispatcher returned: the logged average
\* divides by ntotal
Return ==
    /\ IF ntotal = 0
       THEN raised' = <<"ZeroDivisionError", None>> /\ ret' = ret
       ELSE ret' = Reconciled /\ raised' = raised
    /\ dpc' = "done"

\* return reordered_devset, ncorrect, ntotal, and __call__ to its end
Finish ==
    /\ dpc = "collect"
    /\ Len(reordered_devset) = Len(results)
    /\ Return
    /\ UNCHANGED <<opt, past, inputs, instance, tasks, sig, results, reordered_devset, ncorrect,
                   ntotal, progress>>

\* the gate capacities: batch_size of ape, Semaphore(20) of peter
BatchSizes == (1 .. MaxBatch) \cup {PeterSem}

InitCoop ==
    /\ devN \in 0 .. MaxN
    /\ batch_size \in BatchSizes
    /\ num_threads = 1
    /\ max_errors \in 1 .. MaxErrors
    /\ default_handler = "default_int_handler"
    /\ return_all_scores = FALSE
    /\ return_outputs = FALSE
    /\ error_count = 0
    /\ error_lock = None
    /\ cancel_jobs = FALSE
    /\ wpc = [i \in Items |-> "gate"]
    /\ wcur = [i \in Items |-> 0]
    /\ wres = [i \in Items |-> NoResult]
    /\ sem = batch_size
    /\ gather_exc = None
    /\ invoked = {}
    /\ completed = << >>
    /\ sigint = "previous"
    /\ hpc = "idle"
    /\ interrupts = 0
    /\ prev_calls = 0
    /\ dpc = "gather"
    /\ results = << >>
    /\ reordered_devset = << >>
    /\ ncorrect = 0
    /\ ntotal = 0
    /\ progress = << >>
    /\ ret = NoResult
    /\ raised = NoException
    /\ FirstCall
    /\ NoHistory
    /\ storage = "RDBStorage"
    /\ NewController
    /\ EmptyStorage

Worker(i) ==
    \/ Admit(i)
    \/ Succeed(i)
    \/ Fail(i)
    \/ Acquire(i)
    \/ Increment(i)
    \/ ReadRelease(i)
    \/ Reraise(i)
    \/ Tolerate(i)

NextCoop ==
    \/ \E i \in Items : Worker(i)
    \/ GatherRaise
    \/ GatherReturn
    \/ Collect
    \/ Finish

SpecCoop == InitCoop /\ [][NextCoop]_vars

(***************************************************************************)
(* Several calls of __call__ on one Evaluate instance, one after the       *)
(* other, in cooperative mode.  self.error_count is assigned in __init__   *)
(* only.  A call that was aborted by a fatal failure leaves its unfinished *)
(* workers on the event loop: they are suspended at the gate or in the     *)
(* prompt, and finish during the later calls.                              *)
(***************************************************************************)
\* mutant: a call after the first starts with a counter of zero
CarriedCount_Reset == IF calls >= 1 THEN 0 ELSE error_count

\* self.error_count at the start of __call__: nothing assigns it
CarriedCount == error_count

\* the placeholder results the workers of the current call have returned
Placeholders == {i \in Items : wres[i] = PlaceholderResult(i)}

\* the workers of the current call that are suspended at an await
Suspended == {i \in Items : wpc[i] \in {"gate", "prompt"}}

\* the caller calls __call__ again after the call before returned or raised:
\* the caller runs on the event loop, so every unfinished worker is at an await
CallAgain ==
    /\ dpc = "done"
    /\ calls < MaxCalls
    /\ \A i \in Items : wpc[i] \in {"gate", "prompt", "done", "raised"}
    /\ calls' = calls + 1
    /\ recorded' = recorded + Cardinality(Placeholders)
    /\ stale' = stale + Cardinality(Suspended)
    /\ error_count' = CarriedCount
    /\ wpc' = [i \in Items |-> "gate"]
    /\ wcur' = [i \in Items |-> 0]
    /\ wres' = [i \in Items |-> NoResult]
    /\ sem' = batch_size
    /\ gather_exc' = None
    /\ invoked' = {}
    /\ completed' = << >>
    /\ dpc' = "gather"
    /\ results' = << >>
    /\ reordered_devset' = << >>
    /\ ncorrect' = 0
    /\ ntotal' = 0
    /\ progress' = << >>
    /\ ret' = NoResult
    /\ raised' = NoException
    /\ UNCHANGED <<opt, inputs, error_lock, cancel_jobs, sig>>

\* a worker of an earlier call finishes: its prompt and metric return, or
\* one of them raises and the except block runs to its end without an await
StaleWorker ==
    /\ stale > 0
    /\ stale' = stale - 1
    /\ \/ UNCHANGED <<error_count, recorded>>
       \/ /\ LockFree
          /\ error_count' = error_count + 1
          /\ recorded' = IF BudgetExhausted(error_count') THEN recorded ELSE recorded + 1
    /\ UNCHANGED <<opt, inputs, error_lock, cancel_jobs, tasks, sig, disp, calls>>

\* the datasets of an instance that is called several times: one or two items
CallSizes == {1, 2}

\* the gates of an instance that is called several times: one permit, or
\* more permits than items
CallBatchSizes == {1, PeterSem}

InitCalls ==
    /\ InitCoop
    /\ devN \in CallSizes
    /\ batch_size \in CallBatchSizes

NextCalls ==
    \/ NextCoop
    \/ CallAgain
    \/ StaleWorker

SpecCalls == InitCalls /\ [][NextCalls]_vars

(***************************************************************************)
(* _execute_multi_thread_async (peter): the worker-thread dispatcher.      *)
(*                                                                         *)
(* The event loop runs in the main thread, where Python also runs signal   *)
(* handlers: nothing of the event loop runs while interrupt_handler is     *)
(* running (hpc # "idle"); the pool's threads do.                          *)
(***************************************************************************)
\* return None, None, job_cancelled, None
CancelledResult == <<None, None, job_cancelled, None>>

\* executor.run_in_executor(wrapped_program, idx, arg): the pool's thread
\* calls the coroutine function wrapped_program, and the call returns a
\* coroutine object whose body has not run
CoroutineObject(i) == <<"coroutine", i>>

\* example_idx, example, prediction, score = res
Unpacks(res) == Len(res) = 4

\* mutant: the flag is not looked at
SeesCancelled_Never == FALSE

\* if self.cancel_jobs.is_set() in cancellable_wrapped_prompt
SeesCancelled == cancel_jobs

\* if prediction is job_cancelled
IsCancelled(res) == res[3] = job_cancelled

\* a thread of ThreadPoolExecutor(max_workers=num_threads) is free
ThreadFree == Cardinality({i \in Items : wpc[i] = "running"}) < num_threads

\* the for loop over asyncio.as_completed(tasks) has ended
AllAwaited == Len(results) = devN

\* if self.cancel_jobs.is_set() after the dispatch
Cancelled == cancel_jobs

\* mutant: the run keeps the flag it finds on the instance
FreshFlag_Kept == cancel_jobs

\* self.cancel_jobs = asyncio.Event(): a new event, not set
FreshFlag == FALSE

\* self.cancel_jobs = asyncio.Event(); with interrupt_handler_manager():
\* default_handler = signal.getsignal(SIGINT); signal.signal(SIGINT,
\* interrupt_handler); process_devset() up to its first await
EnterRun ==
    /\ dpc = "start"
    /\ hpc = "idle"
    /\ cancel_jobs' = FreshFlag
    /\ sigint' = "interrupt_handler"
    /\ dpc' = "as_completed"
    /\ UNCHANGED <<opt, past, inputs, error_count, error_lock, tasks, hpc, interrupts, prev_calls,
                   results, reordered_devset, ncorrect, ntotal, progress, ret, raised>>

\* cancellable_wrapped_prompt up to its await: the flag is read, and the
\* item is either resolved with the cancelled marker or handed to the pool
TaskStart(i) ==
    /\ dpc # "start"
    /\ hpc = "idle"
    /\ wpc[i] = "new"
    /\ IF SeesCancelled
       THEN /\ wres' = [wres EXCEPT ![i] = CancelledResult]
            /\ wpc' = [wpc EXCEPT ![i] = "done"]
            /\ completed' = Append(completed, i)
       ELSE /\ wpc' = [wpc EXCEPT ![i] = "queued"]
            /\ UNCHANGED <<wres, completed>>
    /\ UNCHANGED <<opt, past, inputs, instance, wcur, sem, gather_exc, invoked, sig, disp>>

\* mutant: the pool leaves a queued item alone once the flag is set
PoolRun_UnlessCancelled(i) ==
    /\ wpc[i] = "queued"
    /\ ThreadFree
    /\ ~cancel_jobs
    /\ wpc' = [wpc EXCEPT ![i] = "running"]
    /\ invoked' = invoked \cup {i}
    /\ UNCHANGED <<opt, past, inputs, instance, wcur, wres, sem, gather_exc, completed, sig, disp>>

\* a thread of the pool takes the item and calls wrapped_program(idx, arg)
PoolRun(i) ==
    /\ wpc[i] = "queued"
    /\ ThreadFree
    /\ wpc' = [wpc EXCEPT ![i] = "running"]
    /\ invoked' = invoked \cup {i}
    /\ UNCHANGED <<opt, past, inputs, instance, wcur, wres, sem, gather_exc, completed, sig, disp>>

\* the call returns the coroutine object; the thread is free again
PoolReturn(i) ==
    /\ wpc[i] = "running"
    /\ wpc' = [wpc EXCEPT ![i] = "returned"]
    /\ UNCHANGED <<opt, past, inputs, instance, wcur, wres, sem, gather_exc, invoked, completed,
                   sig, disp>>

\* cancellable_wrapped_prompt resumes and returns what the executor gave
TaskResume(i) ==
    /\ hpc = "idle"
    /\ wpc[i] = "returned"
    /\ wres' = [wres EXCEPT ![i] = CoroutineObject(i)]
    /\ wpc' = [wpc EXCEPT ![i] = "done"]
    /\ completed' = Append(completed, i)
    /\ UNCHANGED <<opt, past, inputs, instance, wcur, sem, gather_exc, invoked, sig, disp>>

\* one round of the loop over asyncio.as_completed(tasks):
\* res = await completed_task; unpack; skip a cancelled marker; else append
\* and count.  Unpacking what is not a 4-tuple raises TypeError, which
\* leaves process_devset, the with block (no finally: the handler stays
\* installed) and __call__.
Consume ==
    /\ dpc = "as_completed"
    /\ hpc = "idle"
    /\ Len(results) < Len(completed)
    /\ LET res == wres[completed[Len(results) + 1]]
       IN  /\ results' = Append(results, res)
           /\ IF ~Unpacks(res)
              THEN /\ dpc' = "done"
                   /\ raised' = <<"TypeError", None>>
                   /\ UNCHANGED <<reordered_devset, ncorrect, ntotal, progress>>
              ELSE IF IsCancelled(res)
              THEN UNCHANGED <<dpc, raised, reordered_devset, ncorrect, ntotal, progress>>
              ELSE /\ reordered_devset' = Append(reordered_devset, res)
                   /\ ncorrect' = ScoreAdd(ncorrect, res[4])
                   /\ ntotal' = ntotal + 1
                   /\ progress' = Append(progress, Report(res, ncorrect', ntotal'))
                   /\ UNCHANGED <<dpc, raised>>
    /\ UNCHANGED <<opt, past, inputs, instance, tasks, sig, ret>>

\* the loop has ended: pbar.close(); executor.shutdown(); the with block
\* restores the previous handler; then the flag decides between
\* raise KeyboardInterrupt and the return into __call__
FinishMT ==
    /\ dpc = "as_completed"
    /\ hpc = "idle"
    /\ AllAwaited
    /\ sigint' = "previous"
    /\ IF Cancelled
       THEN /\ raised' = <<"KeyboardInterrupt", None>>
            /\ dpc' = "done"
            /\ ret' = ret
       ELSE Return
    /\ UNCHANGED <<opt, past, inputs, instance, tasks, hpc, interrupts, prev_calls, results,
                   reordered_devset, ncorrect, ntotal, progress>>

(***************************************************************************)
(* interrupt_handler, the SIGINT handler of a worker-thread run.           *)
(***************************************************************************)
\* what signal.getsignal(SIGINT) can return: a callable that returns, the
\* callable signal.default_int_handler, which raises KeyboardInterrupt, or
\* one of SIG_IGN, SIG_DFL and None, which are not callable
Handlers == {"returns", "default_int_handler", "SIG_IGN"}

\* a SIGINT arrives during the run, while interrupt_handler is installed:
\* self.cancel_jobs.set()
Interrupt ==
    /\ dpc = "as_completed"
    /\ sigint = "interrupt_handler"
    /\ hpc = "idle"
    /\ interrupts < MaxInterrupts
    /\ interrupts' = interrupts + 1
    /\ cancel_jobs' = TRUE
    /\ hpc' = "call_default"
    /\ UNCHANGED <<opt, past, inputs, error_count, error_lock, tasks, sigint, prev_calls, disp>>

\* default_handler(sig, frame): an exception of the call is raised in the
\* main thread, inside the running event loop, and ends the run
CallDefault ==
    /\ hpc = "call_default"
    /\ hpc' = "idle"
    /\ prev_calls' = IF default_handler = "SIG_IGN" THEN prev_calls ELSE prev_calls + 1
    /\ IF default_handler = "returns"
       THEN UNCHANGED <<dpc, raised>>
       ELSE /\ dpc' = "done"
            /\ raised' = IF default_handler = "SIG_IGN"
                         THEN <<"TypeError", None>>
                         ELSE <<"KeyboardInterrupt", None>>
    /\ UNCHANGED <<opt, past, inputs, instance, tasks, sigint, interrupts, results,
                   reordered_devset, ncorrect, ntotal, progress, ret>>

\* num_threads of a worker-thread run
ThreadCounts == 2 .. MaxBatch + 1

InitMT ==
    /\ devN \in 0 .. MaxN
    /\ batch_size = PeterSem
    /\ num_threads \in ThreadCounts
    /\ max_errors \in 1 .. MaxErrors
    /\ default_handler \in Handlers
    /\ return_all_scores = FALSE
    /\ return_outputs = FALSE
    /\ error_count = 0
    /\ error_lock = None
    /\ cancel_jobs = FALSE
    /\ wpc = [i \in Items |-> "new"]
    /\ wcur = [i \in Items |-> 0]
    /\ wres = [i \in Items |-> NoResult]
    /\ sem = batch_size
    /\ gather_exc = None
    /\ invoked = {}
    /\ completed = << >>
    /\ sigint = "previous"
    /\ hpc = "idle"
    /\ interrupts = 0
    /\ prev_calls = 0
    /\ dpc = "start"
    /\ results = << >>
    /\ reordered_devset = << >>
    /\ ncorrect = 0
    /\ ntotal = 0
    /\ progress = << >>
    /\ ret = NoResult
    /\ raised = NoException
    /\ FirstCall
    /\ NoHistory
    /\ storage = "RDBStorage"
    /\ NewController
    /\ EmptyStorage

Task(i) ==
    \/ TaskStart(i)
    \/ PoolRun(i)
    \/ PoolReturn(i)
    \/ TaskResume(i)

NextMT ==
    \/ EnterRun
    \/ \E i \in Items : Task(i)
    \/ Consume
    \/ FinishMT
    \/ Interrupt
    \/ CallDefault

SpecMT == InitMT /\ [][NextMT]_vars

\* the threads of the pool run: a queued call is taken when a thread is
\* free, and a call that was taken returns
PoolFair ==
    \A i \in 0 .. MaxN - 1 :
       /\ WF_vars(i \in Items /\ PoolRun(i))
       /\ WF_vars(i \in Items /\ PoolReturn(i))

\* the datasets of the runs whose pool is followed: fewer items than
\* threads, as many, and more
PoolSizes == {1, 2, 3}

InitMTPool ==
    /\ InitMT
    /\ devN \in PoolSizes

SpecMTPool == InitMTPool /\ [][NextMT]_vars /\ PoolFair

(***************************************************************************)
(* Several worker-thread calls of __call__ on one instance, one after the  *)
(* other.  The tasks a call left unfinished touch nothing of the instance  *)
(* (their pool is the pool of that call, and they have read the flag), so  *)
(* they are dropped.  A handler that the call before left installed is     *)
(* what getsignal returns to the next call; it sets the flag of the        *)
(* instance and calls the handler it had found, which is what              *)
(* interrupt_handler does with default_handler.                            *)
(***************************************************************************)
\* the caller calls __call__ again after the call before returned or raised;
\* interrupts counts the SIGINTs of the call that is running
CallAgainMT ==
    /\ dpc = "done"
    /\ hpc = "idle"
    /\ calls < MaxCalls
    /\ calls' = calls + 1
    /\ wpc' = [i \in Items |-> "new"]
    /\ wcur' = [i \in Items |-> 0]
    /\ wres' = [i \in Items |-> NoResult]
    /\ invoked' = {}
    /\ completed' = << >>
    /\ interrupts' = 0
    /\ dpc' = "start"
    /\ results' = << >>
    /\ reordered_devset' = << >>
    /\ ncorrect' = 0
    /\ ntotal' = 0
    /\ progress' = << >>
    /\ ret' = NoResult
    /\ raised' = NoException
    /\ UNCHANGED <<opt, inputs, instance, sem, gather_exc, sigint, hpc, prev_calls, recorded,
                   stale>>

InitMTCalls ==
    /\ InitMT
    /\ devN \in CallSizes

NextMTCalls ==
    \/ NextMT
    \/ CallAgainMT

SpecMTCalls == InitMTCalls /\ [][NextMTCalls]_vars

(***************************************************************************)
(* The collection loop and the reconciliation on their own: the per-item   *)
(* results of a fixed dataset arrive in any order, with any scores; an     *)
(* item either was scored or failed within the budget (placeholder).       *)
(***************************************************************************)
\* the scores drawn: 0, 1 and a float whose last place weighs 2
Scores == {0, 1, Pow2(SignificandBits)}

\* the orders in which n results can arrive
Orders(n) == {f \in [1 .. n -> 0 .. n - 1] : \A a, b \in 1 .. n : f[a] = f[b] => a = b}

InitReconcile ==
    /\ devN \in 1 .. MaxN
    /\ batch_size = PeterSem
    /\ num_threads = 1
    /\ max_errors = 1
    /\ default_handler = "default_int_handler"
    /\ return_all_scores \in BOOLEAN
    /\ return_outputs \in BOOLEAN
    /\ error_count = 0
    /\ error_lock = None
    /\ cancel_jobs = FALSE
    /\ wpc = [i \in Items |-> "done"]
    /\ wcur = [i \in Items |-> 0]
    /\ \E score \in [Items -> Scores] :
          \E failed \in SUBSET Items :
             wres = [i \in Items |->
                        IF i \in failed THEN PlaceholderResult(i)
                        ELSE <<i, Example(i), Prediction(i), score[i]>>]
    /\ sem = batch_size
    /\ gather_exc = None
    /\ invoked = Items
    /\ completed = << >>
    /\ sigint = "previous"
    /\ hpc = "idle"
    /\ interrupts = 0
    /\ prev_calls = 0
    /\ dpc = "collect"
    /\ \E order \in Orders(devN) : results = [k \in 1 .. devN |-> wres[order[k]]]
    /\ reordered_devset = << >>
    /\ ncorrect = 0
    /\ ntotal = 0
    /\ progress = << >>
    /\ ret = NoResult
    /\ raised = NoException
    /\ FirstCall
    /\ NoHistory
    /\ storage = "RDBStorage"
    /\ NewController
    /\ EmptyStorage

NextReconcile ==
    \/ Collect
    \/ Finish

SpecReconcile == InitReconcile /\ [][NextReconcile]_vars

(***************************************************************************)
(* MIPROWithHIL: the controller of one persisted optimization study.       *)
(*                                                                         *)
(* The storage keeps the study of one name: its trials and its user        *)
(* attributes.  A controller is one MIPROWithHIL instance in one process;  *)
(* Restart ends the process and constructs a new controller on the same    *)
(* storage.  The calls of a controller are made one after the other.       *)
(***************************************************************************)
\* the scores a caller tells
TellScores == {0, 1}

\* a trainset argument: None, or a list of items that are all dicts or all
\* DatasetItem
NoTrainset == [none |-> TRUE, items |-> << >>]

\* a trainset of n items of one kind
Trainset(n, kind) ==
    [none |-> FALSE, items |-> [k \in 1 .. n |-> [kind |-> kind, data |-> 200 + k]]]

\* the trainsets a caller passes: None, the empty list, one dict, two
\* DatasetItem
Trainsets ==
    {NoTrainset, Trainset(0, "dict"), Trainset(1, "dict"), Trainset(2, "DatasetItem")}

\* the fewshot of a prompt that has none bound
NoFewshot == [kind |-> "None", data |-> 0]

\* what the proposer can propose: the candidates come from a language
\* model, and two calls with the same arguments need not propose the same
Proposals == {"A", "B"}

\* how many candidates the proposer can propose
ProposalSizes == {1, 2}

\* proposer.generate_candidates(...): n instruction candidates of proposal g
GenerateCandidates(g, n) ==
    [j \in 1 .. n |-> [messages |-> <<"instruction", g, j>>, fewshot |-> NoFewshot]]

\* json.dumps([p.dump() for p in self.instruction_candidates])
DumpPrompts(ps) == [k \in 1 .. Len(ps) |-> <<"Prompt", ps[k].messages, ps[k].fewshot>>]

\* [Prompt.load(p) for p in json.loads(prompt_candidates_json)]
LoadPrompts(js) == [k \in 1 .. Len(js) |-> [messages |-> js[k][2], fewshot |-> js[k][3]]]

\* json.dumps([d.model_dump() if isinstance(d, DatasetItem) else d for d in trainset])
DumpItems(ds) == [k \in 1 .. Len(ds) |-> <<"item", ds[k].data>>]

\* [DatasetItem(**d) for d in json.loads(fewshot_candidates_json)]
LoadItems(js) == [k \in 1 .. Len(js) |-> [kind |-> "DatasetItem", data |-> js[k][2]]]

\* mutant: only a trainset of None is refused
TrainsetMissing_OnlyNone(trainset) == trainset.none

\* if not trainset
TrainsetMissing(trainset) == trainset.none \/ Len(trainset.items) = 0

\* mutant: a study is new when no candidate attribute is persisted
IsNewStudy_NoAttrs == user_attrs.keys = {}

\* is_new_study = len(study.trials) == 0
IsNewStudy == Len(trials) = 0

\* self.fewshot_candidates after the branch of a new study: the branch does
\* not assign it
NewStudyFewshot(trainset) == fewshot_candidates

\* a trial as study.ask() creates it
AskedTrial == [state |-> "RUNNING", instruction |-> None, fewshot |-> None, value |-> None]

\* the trials that have been told
Told == {t \in 0 .. Len(trials) - 1 : trials[t + 1].state = "COMPLETE"}

\* mutant: the last told trial is taken for the best
BestTrials_Latest == {t \in Told : \A u \in Told : u <= t}

\* study.best_trial with direction="maximize": a told trial of maximal value
BestTrials == {t \in Told : \A u \in Told : trials[u + 1].value <= trials[t + 1].value}

\* prompt = self.instruction_candidates[i]; prompt.fewshot =
\* self.fewshot_candidates[f]: the candidate itself is bound, not a copy
Bind(i, f) ==
    [instruction_candidates EXCEPT ![i + 1].fewshot = fewshot_candidates[f + 1]]

\* the prompts the caller holds after `prompt.fewshot = ...` on candidate i:
\* a prompt returned for candidate i of the list in use is that candidate
Rebound(i, candidate) ==
    [t \in DOMAIN held |->
        IF held[t].candidate = i THEN [held[t] EXCEPT !.prompt = candidate] ELSE held[t]]

\* the prompts the caller holds after self.instruction_candidates is
\* assigned a new list: they are no element of it
Detached == [t \in DOMAIN held |-> [held[t] EXCEPT !.candidate = None]]

\* a call raised
Raise(exc) ==
    /\ oraised' = exc
    /\ oret' = NoResult

\* a call returned
Returns(value) ==
    /\ oret' = value
    /\ oraised' = NoException

\* create_or_load_study(study_name, trainset, task_description, ...)
CreateOrLoadStudy(trainset, task_description) ==
    /\ dpc = "idle"
    /\ ocall' = [op |-> "create_or_load_study", trainset |-> trainset,
                 task_description |-> task_description, found |-> user_attrs.keys]
    /\ IF storage = "None"
       THEN /\ Raise(<<"ValueError", "Storage is not set up.">>)
            /\ generations' = 0
            /\ UNCHANGED <<persisted, controller, handle, held>>
       ELSE /\ study_exists' = TRUE
            /\ IF IsNewStudy
               THEN IF TrainsetMissing(trainset)
                    THEN /\ Raise(<<"ValueError", "Trainset is required for a new study.">>)
                         /\ generations' = 0
                         /\ UNCHANGED <<trials, user_attrs, controller, handle, held>>
                    ELSE IF ~task_description
                    THEN /\ Raise(<<"ValueError",
                                    "Task description is required for a new study.">>)
                         /\ generations' = 0
                         /\ UNCHANGED <<trials, user_attrs, controller, handle, held>>
                    ELSE /\ generations' = 1
                         /\ \E g \in Proposals, n \in ProposalSizes :
                               instruction_candidates' = GenerateCandidates(g, n)
                         /\ user_attrs' =
                               [keys |-> {"prompt_candidates", "fewshot_candidates"},
                                prompt_candidates |-> DumpPrompts(instruction_candidates'),
                                fewshot_candidates |-> DumpItems(trainset.items)]
                         /\ fewshot_candidates' = NewStudyFewshot(trainset)
                         /\ held' = Detached
                         /\ handle' = TRUE
                         /\ Returns([is_new_study |-> TRUE])
                         /\ UNCHANGED <<trials, storage>>
               ELSE IF user_attrs.keys = {}
                    THEN /\ Raise(<<"KeyError", "prompt_candidates">>)
                         /\ generations' = 0
                         /\ UNCHANGED <<trials, user_attrs, controller, handle, held>>
                    ELSE /\ instruction_candidates' = LoadPrompts(user_attrs.prompt_candidates)
                         /\ fewshot_candidates' = LoadItems(user_attrs.fewshot_candidates)
                         /\ held' = Detached
                         /\ handle' = TRUE
                         /\ Returns([is_new_study |-> FALSE])
                         /\ generations' = 0
                         /\ UNCHANGED <<trials, user_attrs, storage>>
    /\ UNCHANGED <<proposer, procs, past, inputs, instance, tasks, sig, disp, issued>>

\* suggest_next_prompt(study): study.ask() stores a new trial; each
\* suggest_categorical stores the choice it made, and raises ValueError for
\* an empty range of choices
SuggestNextPrompt ==
    /\ dpc = "idle"
    /\ handle
    /\ Len(trials) < MaxTrials
    /\ ocall' = [op |-> "suggest_next_prompt"]
    /\ IF Len(instruction_candidates) = 0
       THEN /\ trials' = Append(trials, AskedTrial)
            /\ Raise(<<"ValueError", "choices">>)
            /\ UNCHANGED <<instruction_candidates, issued, held>>
       ELSE \E i \in 0 .. Len(instruction_candidates) - 1 :
               IF Len(fewshot_candidates) = 0
               THEN /\ trials' = Append(trials, [AskedTrial EXCEPT !.instruction = i])
                    /\ Raise(<<"ValueError", "choices">>)
                    /\ UNCHANGED <<instruction_candidates, issued, held>>
               ELSE \E f \in 0 .. Len(fewshot_candidates) - 1 :
                       /\ trials' = Append(trials, [AskedTrial EXCEPT !.instruction = i,
                                                                      !.fewshot = f])
                       /\ instruction_candidates' = Bind(i, f)
                       /\ issued' = issued \cup {Len(trials)}
                       /\ held' = [t \in DOMAIN held \cup {Len(trials)} |->
                                      IF t = Len(trials)
                                      THEN [candidate |-> i,
                                            prompt |-> instruction_candidates'[i + 1]]
                                      ELSE Rebound(i, instruction_candidates'[i + 1])[t]]
                       /\ Returns([trial |-> Len(trials),
                                   prompt |-> instruction_candidates'[i + 1]])
    /\ generations' = 0
    /\ UNCHANGED <<proposer, procs, past, inputs, instance, tasks, sig, disp, study_exists, user_attrs, storage,
                   fewshot_candidates, handle>>

\* complete_trial(study, trial, score): study.tell stores the score; it
\* raises for a trial that has been told
CompleteTrial(t, score) ==
    /\ dpc = "idle"
    /\ handle
    /\ t \in issued
    /\ ocall' = [op |-> "complete_trial", trial |-> t, score |-> score]
    /\ IF trials[t + 1].state = "RUNNING"
       THEN /\ trials' = [trials EXCEPT ![t + 1].state = "COMPLETE", ![t + 1].value = score]
            /\ held' = [u \in DOMAIN held \ {t} |-> held[u]]
            /\ Returns([told |-> t])
       ELSE /\ Raise(<<"ValueError", "finished trial">>)
            /\ UNCHANGED <<trials, held>>
    /\ generations' = 0
    /\ UNCHANGED <<proposer, procs, past, inputs, instance, tasks, sig, disp, study_exists, user_attrs, controller,
                   handle, issued>>

\* get_best_prompt(study): study.best_trial raises when no trial was told
GetBestPrompt ==
    /\ dpc = "idle"
    /\ handle
    /\ ocall' = [op |-> "get_best_prompt"]
    /\ IF Told = {}
       THEN /\ Raise(<<"ValueError", "No trials are completed yet.">>)
            /\ UNCHANGED <<instruction_candidates, held>>
       ELSE \E t \in BestTrials :
               LET i == trials[t + 1].instruction
                   f == trials[t + 1].fewshot
               IN  IF i + 1 > Len(instruction_candidates) \/ f + 1 > Len(fewshot_candidates)
                   THEN /\ Raise(<<"IndexError", "list index out of range">>)
                        /\ UNCHANGED <<instruction_candidates, held>>
                   ELSE /\ instruction_candidates' = Bind(i, f)
                        /\ held' = Rebound(i, instruction_candidates'[i + 1])
                        /\ Returns([best_trial |-> t,
                                    prompt |-> instruction_candidates'[i + 1]])
    /\ generations' = 0
    /\ UNCHANGED <<proposer, procs, past, inputs, instance, tasks, sig, disp, persisted, storage,
                   fewshot_candidates, handle, issued>>

\* the process ends and a new one constructs its controller:
\* MIPROWithHIL(db_url) on the same storage
Restart ==
    /\ dpc = "idle"
    /\ ocall' = [op |-> "__init__"]
    /\ storage' = "RDBStorage"
    /\ instruction_candidates' = << >>
    /\ fewshot_candidates' = << >>
    /\ handle' = FALSE
    /\ held' = << >>
    /\ Returns(<<"MIPROWithHIL">>)
    /\ generations' = 0
    /\ UNCHANGED <<proposer, procs, past, inputs, instance, tasks, sig, disp, persisted, issued>>

\* no evaluation runs while the study is driven
NoEvaluation ==
    /\ devN = 0
    /\ batch_size = 1
    /\ num_threads = 1
    /\ max_errors = 1
    /\ default_handler = "default_int_handler"
    /\ return_all_scores = FALSE
    /\ return_outputs = FALSE
    /\ error_count = 0
    /\ error_lock = None
    /\ cancel_jobs = FALSE
    /\ wpc = << >>
    /\ wcur = << >>
    /\ wres = << >>
    /\ sem = batch_size
    /\ gather_exc = None
    /\ invoked = {}
    /\ completed = << >>
    /\ sigint = "previous"
    /\ hpc = "idle"
    /\ interrupts = 0
    /\ prev_calls = 0
    /\ dpc = "idle"
    /\ results = << >>
    /\ reordered_devset = << >>
    /\ ncorrect = 0
    /\ ntotal = 0
    /\ progress = << >>
    /\ ret = NoResult
    /\ raised = NoException
    /\ calls = 0
    /\ recorded = 0
    /\ stale = 0

\* a controller whose storage is set up by __init__, or one whose storage
\* attribute is None
InitStudy ==
    /\ NoEvaluation
    /\ NoHistory
    /\ storage \in {"RDBStorage", "None"}
    /\ NewController
    /\ EmptyStorage

\* the arguments a caller passes to create_or_load_study: every trainset
\* with a task description, and a trainset without one
CreateArguments ==
    {<<trainset, TRUE>> : trainset \in Trainsets} \cup {<<Trainset(2, "DatasetItem"), FALSE>>}

NextStudy ==
    \/ \E arguments \in CreateArguments : CreateOrLoadStudy(arguments[1], arguments[2])
    \/ SuggestNextPrompt
    \/ \E t \in 0 .. MaxTrials - 1, score \in TellScores : CompleteTrial(t, score)
    \/ GetBestPrompt
    \/ Restart

SpecStudy == InitStudy /\ [][NextStudy]_vars

(***************************************************************************)
(* Controllers in two processes on the study of one name.  Every call of   *)
(* the storage is atomic; create_or_load_study makes several of them, and  *)
(* the processes interleave between any two.  Each process calls           *)
(* create_or_load_study with a trainset and a task description, and then   *)
(* asks one trial.                                                         *)
(***************************************************************************)
Processes == {1, 2}

\* the process has not called create_or_load_study
Idle == [pc |-> "start", instruction_candidates |-> << >>]

\* study = optuna.create_study(..., load_if_exists=True)
OpenStudy(p) ==
    /\ procs[p].pc = "start"
    /\ study_exists' = TRUE
    /\ procs' = [procs EXCEPT ![p].pc = "opened"]
    /\ UNCHANGED <<trials, user_attrs, controller, caller, proposer, past, inputs, instance, tasks,
                   sig, disp>>

\* is_new_study = len(study.trials) == 0
ReadTrials(p) ==
    /\ procs[p].pc = "opened"
    /\ procs' = [procs EXCEPT ![p].pc = IF IsNewStudy THEN "new" ELSE "resumed"]
    /\ UNCHANGED <<persisted, controller, caller, proposer, past, inputs, instance, tasks, sig, disp>>

\* self.instruction_candidates = await proposer.generate_candidates(...)
Generate(p) ==
    /\ procs[p].pc = "new"
    /\ \E g \in Proposals, n \in ProposalSizes :
          procs' = [procs EXCEPT ![p].pc = "generated",
                                 ![p].instruction_candidates = GenerateCandidates(g, n)]
    /\ UNCHANGED <<persisted, controller, caller, proposer, past, inputs, instance, tasks, sig, disp>>

\* study.set_user_attr("prompt_candidates", ...)
WritePrompts(p) ==
    /\ procs[p].pc = "generated"
    /\ user_attrs' = [user_attrs EXCEPT
                         !.keys = @ \cup {"prompt_candidates"},
                         !.prompt_candidates = DumpPrompts(procs[p].instruction_candidates)]
    /\ procs' = [procs EXCEPT ![p].pc = "wrote_prompts"]
    /\ UNCHANGED <<study_exists, trials, controller, caller, proposer, past, inputs, instance, tasks,
                   sig, disp>>

\* study.set_user_attr("fewshot_candidates", ...); return study, is_new_study
WriteFewshot(p) ==
    /\ procs[p].pc = "wrote_prompts"
    /\ user_attrs' = [user_attrs EXCEPT
                         !.keys = @ \cup {"fewshot_candidates"},
                         !.fewshot_candidates = DumpItems(Trainset(2, "DatasetItem").items)]
    /\ procs' = [procs EXCEPT ![p].pc = "ready"]
    /\ UNCHANGED <<study_exists, trials, controller, caller, proposer, past, inputs, instance, tasks,
                   sig, disp>>

\* the branch of a study with trials: both pools are loaded from the
\* attributes; study.user_attrs[...] raises KeyError for an attribute that
\* is not there
LoadPools(p) ==
    /\ procs[p].pc = "resumed"
    /\ procs' = IF user_attrs.keys = {"prompt_candidates", "fewshot_candidates"}
                THEN [procs EXCEPT ![p].pc = "ready",
                                   ![p].instruction_candidates =
                                       LoadPrompts(user_attrs.prompt_candidates)]
                ELSE [procs EXCEPT ![p].pc = "raised"]
    /\ UNCHANGED <<persisted, controller, caller, proposer, past, inputs, instance, tasks, sig, disp>>

\* suggest_next_prompt up to trial = study.ask()
Ask(p) ==
    /\ procs[p].pc = "ready"
    /\ Len(trials) < MaxTrials
    /\ trials' = Append(trials, AskedTrial)
    /\ procs' = [procs EXCEPT ![p].pc = "asked"]
    /\ UNCHANGED <<study_exists, user_attrs, controller, caller, proposer, past, inputs, instance,
                   tasks, sig, disp>>

InitProcesses ==
    /\ NoEvaluation
    /\ NoHistory
    /\ storage = "RDBStorage"
    /\ NewController
    /\ study_exists = FALSE
    /\ trials = << >>
    /\ user_attrs = NoAttrs
    /\ issued = {}
    /\ held = << >>
    /\ generations = 0
    /\ procs = [p \in Processes |-> Idle]

Process(p) ==
    \/ OpenStudy(p)
    \/ ReadTrials(p)
    \/ Generate(p)
    \/ WritePrompts(p)
    \/ WriteFewshot(p)
    \/ LoadPools(p)
    \/ Ask(p)

NextProcesses == \E p \in Processes : Process(p)

SpecProcesses == InitProcesses /\ [][NextProcesses]_vars

(***************************************************************************)
(* Evaluate.__call__ of peter in either mode: num_threads == 1 takes the   *)
(* cooperative dispatcher, any other value the worker-thread dispatcher.   *)
(***************************************************************************)
InitEither == InitCoop \/ InitMT

NextEither ==
    \/ NextCoop
    \/ NextMT

SpecEither == InitEither /\ [][NextEither]_vars

\* every prompt call and metric call ends, the event loop runs every task
\* that can run, and the threads of the pool run; when a SIGINT arrives is
\* up to the environment
Scheduled ==
    /\ \A i \in 0 .. MaxN - 1 :
          /\ WF_vars(i \in Items /\ num_threads = 1 /\ Worker(i))
          /\ WF_vars(i \in Items /\ num_threads # 1 /\ Task(i))
    /\ WF_vars(GatherRaise)
    /\ WF_vars(GatherReturn)
    /\ WF_vars(Collect)
    /\ WF_vars(Finish)
    /\ WF_vars(EnterRun)
    /\ WF_vars(Consume)
    /\ WF_vars(FinishMT)
    /\ WF_vars(CallDefault)

SpecEitherScheduled == SpecEither /\ Scheduled

(***************************************************************************)
(* create_history_string(prompt, trial_logs, top_n) of peter/proposer.     *)
(*                                                                         *)
(* A trial of trial_logs is a dict with or without the key prompt_path; a  *)
(* trial with the key carries the messages its prompt has after            *)
(* trial_prompt.load(trial["prompt_path"]) and its score.  Scores are      *)
(* 0 or 1, on which the float sum is exact; an average        *)
(* total_score / count is kept as the fraction in lowest terms.            *)
(***************************************************************************)
\* the trials of a trial_logs: without a prompt_path, or with one of three
\* message lists and a score of 0 or 1
Trials ==
    {[prompt_path |-> FALSE, messages |-> "none", score |-> 0]}
    \cup {[prompt_path |-> TRUE, messages |-> m, score |-> v] :
             m \in {"m1", "m2", "m3"}, v \in {0, 1}}

\* json.dumps(history_item.prompt.messages)
Instruction(messages) == <<"json", messages>>

RECURSIVE Gcd(_, _)
Gcd(a, b) == IF b = 0 THEN a ELSE Gcd(b, a % b)

\* data.total_score / data.count
Quotient(total, count) ==
    LET g == Gcd(total, count) IN <<total \div g, count \div g>>

\* the order of two averages
Less(a, b) == a[1] * b[2] < b[1] * a[2]

RECURSIVE InstructionHistory(_)
\* the first loop: the trials that have a prompt_path, in the order of the log
InstructionHistory(logs) ==
    IF logs = << >> THEN << >>
    ELSE IF Head(logs).prompt_path
         THEN <<[instruction |-> Instruction(Head(logs).messages), score |-> Head(logs).score]>>
                 \o InstructionHistory(Tail(logs))
         ELSE InstructionHistory(Tail(logs))

\* one round of the second loop: the item is added to the entry of its
\* instruction, or a new entry is put last
Aggregated(aggregate, item) ==
    IF \E k \in 1 .. Len(aggregate) : aggregate[k].instruction = item.instruction
    THEN [k \in 1 .. Len(aggregate) |->
             IF aggregate[k].instruction = item.instruction
             THEN [aggregate[k] EXCEPT !.total_score = @ + item.score, !.count = @ + 1]
             ELSE aggregate[k]]
    ELSE Append(aggregate,
                [instruction |-> item.instruction, total_score |-> item.score, count |-> 1])

RECURSIVE InstructionAggregate(_, _)
\* the second loop: instruction_aggregate, a dict in the order of insertion
InstructionAggregate(hist, aggregate) ==
    IF hist = << >> THEN aggregate
    ELSE InstructionAggregate(Tail(hist), Aggregated(aggregate, Head(hist)))

\* the third and the fourth loop: (instruction, average_score) per entry;
\* the keys of a dict are distinct, so the deduplication keeps every pair
PredictorHistory(aggregate) ==
    [k \in 1 .. Len(aggregate) |->
        <<aggregate[k].instruction, Quotient(aggregate[k].total_score, aggregate[k].count)>>]

RECURSIVE InsertDescending(_, _)
\* one insertion of the stable descending sort: the pair goes behind the
\* pairs that are not smaller
InsertDescending(pair, sorted) ==
    IF sorted = << >> THEN <<pair>>
    ELSE IF Less(Head(sorted)[2], pair[2])
         THEN <<pair>> \o sorted
         ELSE <<Head(sorted)>> \o InsertDescending(pair, Tail(sorted))

RECURSIVE SortedDescending(_)
\* sorted(unique_predictor_history, key=lambda x: x[1], reverse=True)
SortedDescending(pairs) ==
    IF pairs = << >> THEN << >>
    ELSE InsertDescending(pairs[Len(pairs)],
                          SortedDescending(SubSeq(pairs, 1, Len(pairs) - 1)))

\* the slice [:n] of a list
Slice(list, n) ==
    IF n >= 0
    THEN SubSeq(list, 1, IF n < Len(list) THEN n ELSE Len(list))
    ELSE SubSeq(list, 1, IF Len(list) + n > 0 THEN Len(list) + n ELSE 0)

\* mutant: the list is left in the order of the sort
Reversed_Kept(list) == list

\* top_instructions.reverse()
Reversed(list) == [k \in 1 .. Len(list) |-> list[Len(list) + 1 - k]]

\* the last loop: instruction + f" | Score: {score}\n\n" per pair
HistoryString(pairs) ==
    [k \in 1 .. Len(pairs) |-> <<pairs[k][1], " | Score: ", pairs[k][2], "\n\n">>]

\* create_history_string(prompt, trial_logs, top_n)
CreateHistoryString ==
    /\ ~history.returned
    /\ LET instruction_history == InstructionHistory(trial_logs)
           instruction_aggregate == InstructionAggregate(instruction_history, << >>)
           unique_predictor_history == PredictorHistory(instruction_aggregate)
           top_instructions ==
               Reversed(Slice(SortedDescending(unique_predictor_history), top_n))
       IN  history' = [returned |-> TRUE, value |-> HistoryString(top_instructions)]
    /\ UNCHANGED <<trial_logs, top_n, persisted, controller, caller, procs, past, inputs,
                   instance, tasks, sig, disp>>

\* the caller passes other trial logs
NewLogs ==
    /\ history.returned
    /\ history' = NotCalled
    /\ Len(trial_logs) < MaxLogs
    /\ \E trial \in Trials : trial_logs' = Append(trial_logs, trial)
    /\ UNCHANGED <<top_n, persisted, controller, caller, procs, past, inputs, instance,
                   tasks, sig, disp>>

InitHistory ==
    /\ NoEvaluation
    /\ storage = "RDBStorage"
    /\ NewController
    /\ EmptyStorage
    /\ trial_logs = << >>
    /\ top_n \in 0 .. MaxTop
    /\ history = NotCalled

NextHistory ==
    \/ CreateHistoryString
    \/ NewLogs

SpecHistory == InitHistory /\ [][NextHistory]_vars

(***************************************************************************)
(* Properties.                                                             *)
(***************************************************************************)
\* the indices of the per-item results the dispatcher produced
ResultIndices == {reordered_devset[k][1] : k \in 1 .. Len(reordered_devset)}

\* C1: a run over N >= 1 items that is neither cancelled nor aborted by a
\* fatal item failure ends with exactly N per-item results whose indices
\* are 0 .. N-1, each once.
C1_ExactlyNResults ==
    (dpc = "done" /\ devN >= 1 /\ ~cancel_jobs /\ gather_exc = None)
        => /\ raised = NoException
           /\ Len(reordered_devset) = devN
           /\ ResultIndices = Items

\* the items whose prompt or metric raised
Failed ==
    {i \in Items : wpc[i] \in {"except", "increment", "read", "check", "raised"}
                   \/ wcur[i] > 0}

\* every task has returned or raised
AllResolved == \A i \in Items : wpc[i] \in {"done", "raised"}

Min(a, b) == IF a < b THEN a ELSE b

\* C2: with budget M, a run in which M-1 items raise is not aborted and
\* returns the M-1 items as placeholders (empty output, score 0, own index
\* and item) and every other item with its prediction and score; a worker
\* whose post-increment count reaches M re-raises its own exception, and
\* then the run returns nothing and raises the exception of an item.
C2_ErrorBudget ==
    /\ (AllResolved /\ Cardinality(Failed) <= max_errors - 1)
          => /\ gather_exc = None
             /\ raised[1] # "Exception"
             /\ \A i \in Items : wpc[i] = "done"
    /\ (ret # NoResult)
          => /\ Cardinality(Failed) <= max_errors - 1
             /\ raised = NoException
             /\ reordered_devset =
                   [k \in 1 .. devN |->
                       IF k - 1 \in Failed THEN <<k - 1, Example(k - 1), << >>, 0>>
                       ELSE <<k - 1, Example(k - 1), Prediction(k - 1), Metric(k - 1)>>]
             /\ ret.predicted_devset = reordered_devset
    /\ \A i \in Items :
          /\ (wcur[i] >= max_errors) => (wpc[i] \in {"check", "raised"} /\ ret = NoResult)
          /\ (wcur[i] > 0 /\ wcur[i] < max_errors) => wpc[i] \in {"check", "done"}
    /\ (gather_exc # None)
          => wpc[gather_exc] = "raised" /\ wcur[gather_exc] >= max_errors
    /\ (raised[1] = "Exception")
          => /\ raised = <<"Exception", gather_exc>>
             /\ ret = NoResult
             /\ dpc = "done"

\* C2 witness: a run with budget M >= 2 completed with exactly M-1
\* placeholders and at least one item scored normally.
C2_Witness ==
    /\ ret # NoResult
    /\ max_errors >= 2
    /\ Cardinality(Failed) = max_errors - 1
    /\ devN > Cardinality(Failed)

\* the workers admitted through the gate that have not returned or raised
Active == {i \in Items : wpc[i] \in {"prompt", "except", "increment", "read", "check"}}

\* C3: at every moment at most K workers have been admitted through the
\* gate and have not yet returned or raised, and the permits account for
\* them.
C3_BoundedConcurrency ==
    /\ Cardinality(Active) <= batch_size
    /\ sem = batch_size - Cardinality(Active)

\* C3 witness: the gate is full and an item waits at it.
C3_Witness ==
    /\ Cardinality(Active) = batch_size
    /\ \E i \in Items : wpc[i] = "gate"

\* the workers that have read their post-increment count
HaveRead == {i \in Items : wcur[i] > 0}

\* C4: increment and read are one atomic step under the lock: no increment
\* is lost, the F failing workers read the distinct values 1 .. F, and once
\* all have resolved min(F, M-1) returned a placeholder and the others
\* re-raised.
C4_AtomicCounter ==
    /\ {wcur[i] : i \in HaveRead} = 1 .. Cardinality(HaveRead)
    /\ \A i, j \in HaveRead : wcur[i] = wcur[j] => i = j
    /\ error_count = Cardinality(HaveRead)
                     + Cardinality({i \in Items : wpc[i] = "read"})
    /\ AllResolved =>
          LET F == Cardinality(Failed)
          IN  /\ F = error_count
              /\ Cardinality({i \in Failed : wpc[i] = "done"}) = Min(F, max_errors - 1)
              /\ Cardinality({i \in Failed : wpc[i] = "raised"})
                    = F - Min(F, max_errors - 1)
              /\ \A i \in Failed : wpc[i] = "done" => wres[i] = PlaceholderResult(i)

\* C4 witness: three workers failed at once, all have resolved, one was
\* tolerated and the others re-raised.
C4_Witness ==
    /\ AllResolved
    /\ Cardinality(Failed) >= 3
    /\ \E i \in Failed : wpc[i] = "done"
    /\ \E i, j \in Failed : i # j /\ wpc[i] = "raised" /\ wpc[j] = "raised"

\* C5: once the cancellation flag is set during a worker-thread run, the
\* run returns no result: it ends by raising KeyboardInterrupt, and only
\* after every task has resolved.  Stated for a previous SIGINT handler
\* that returns, so that the drain is not cut short by that handler.
C5_CancelRaisesAfterDrain ==
    (default_handler = "returns" /\ cancel_jobs /\ dpc = "done")
        => /\ ret = NoResult
           /\ raised = <<"KeyboardInterrupt", None>>
           /\ \A i \in Items : wpc[i] = "done"

\* the items resolved with the cancelled marker
Marked == {i \in Items : wres[i] = CancelledResult}

\* C6: an item whose task starts with the flag set resolves with the
\* cancelled marker at once, without being handed to the pool and without
\* touching the error counter, and stays so; an item is handed to the pool
\* only if it saw the flag clear; awaiting a marker leaves
\* reordered_devset, ncorrect and ntotal as they are.
C6_CancelledItemsDoNoWork ==
    [][
        /\ \A i \in Items :
             /\ (wpc[i] = "new" /\ wpc'[i] # "new" /\ cancel_jobs)
                   => /\ wres'[i] = <<None, None, <<"cancelled">>, None>>
                      /\ wpc'[i] = "done"
                      /\ i \notin invoked'
                      /\ error_count' = error_count
             /\ (wpc[i] = "new" /\ wpc'[i] = "queued") => ~cancel_jobs
             /\ (i \in Marked) => (i \in Marked' /\ i \notin invoked')
        /\ (Len(results') > Len(results) /\ completed[Len(results')] \in Marked)
              => UNCHANGED <<reordered_devset, ncorrect, ntotal, dpc, raised>>
        /\ \A k \in 1 .. Len(reordered_devset') :
              reordered_devset'[k][3] # <<"cancelled">>
      ]_vars

\* C6 witness: the dispatcher has awaited a cancelled marker, nothing was
\* added to the result set, and the item was never handed to the pool.
C6_Witness ==
    /\ Len(results) >= 1
    /\ completed[1] \in Marked
    /\ completed[1] \notin invoked
    /\ reordered_devset = << >>
    /\ ntotal = 0

\* C7: when cancellation is signalled after C of the N items completed,
\* the run raises the cancellation condition, at most N - C further items
\* are started, and no result set is returned.
C7_CancelAfterSomeCompleted ==
    (default_handler = "returns" /\ cancel_jobs /\ dpc = "done")
        => /\ raised[1] = "KeyboardInterrupt"
           /\ Cardinality(invoked) + Cardinality(Marked) <= devN
           /\ ret = NoResult

\* C8: after the run has ended, however it ended, the SIGINT handler is
\* again the handler that was installed before the run.
C8_HandlerRestored == (dpc = "done") => (sigint = "previous")

\* C9: on every interrupt of the run the flag is set before the previous
\* behaviour is invoked, and the previous behaviour is invoked each time.
C9_PreviousHandlerInvoked ==
    /\ (hpc = "call_default") => (cancel_jobs /\ prev_calls = interrupts - 1)
    /\ (hpc = "idle") => (prev_calls = interrupts)

\* the per-item results of the dataset in ascending index order
Canonical == [k \in 1 .. devN |-> wres[k - 1]]

\* ncorrect after the collection loop has run over s, starting from acc
RECURSIVE Accumulate(_, _)
Accumulate(s, acc) ==
    IF s = << >> THEN acc ELSE Accumulate(Tail(s), ScoreAdd(acc, Head(s)[4]))

\* the sum of the scores of s in exact arithmetic
RECURSIVE ExactTotal(_)
ExactTotal(s) == IF s = << >> THEN 0 ELSE Head(s)[4] + ExactTotal(Tail(s))

\* every sum of some of the scores is a float: no addition rounds
AdditionsExact == ExactTotal(Canonical) <= Pow2(SignificandBits)

C11_Tally ==
    /\ ntotal = Len(reordered_devset)
    /\ ncorrect = Accumulate(reordered_devset, 0)
    /\ (ExactTotal(reordered_devset) <= Pow2(SignificandBits))
          => ncorrect = ExactTotal(reordered_devset)
    /\ (ret # NoResult)
          => /\ ntotal = devN
             /\ ret.average = Average(ncorrect, ntotal)
             /\ AdditionsExact => ret.average = Average(ExactTotal(Canonical), devN)
    /\ (/\ ret # NoResult
        /\ devN = 3
        /\ wres[0][4] = 1
        /\ wres[1][4] = 1
        /\ wres[2] = PlaceholderResult(2))
          => /\ ncorrect = 2
             /\ ntotal = 3
             /\ ret.average = 6667
             /\ [k \in 1 .. 3 |-> ret.predicted_devset[k][1]] = <<0, 1, 2>>

\* C11 witness: the run of the example has returned, its results having
\* arrived in an order that is not ascending.
C11_Witness ==
    /\ ret # NoResult
    /\ devN = 3
    /\ wres[0][4] = 1
    /\ wres[1][4] = 1
    /\ wres[2] = PlaceholderResult(2)
    /\ results[1][1] = 2
    /\ ret.average = 6667

\* C12: a run in which zero items were scored returns no aggregate and no
\* default: an uninterrupted run over an empty dataset ends, in either
\* mode, with the ZeroDivisionError of the average, and that error is
\* raised only for an empty tally.
C12_EmptyTallyRaises ==
    /\ (dpc = "done" /\ ntotal = 0) => (ret = NoResult /\ raised # NoException)
    /\ (dpc = "done" /\ devN = 0 /\ interrupts = 0)
          => raised = <<"ZeroDivisionError", None>>
    /\ (raised[1] = "ZeroDivisionError") => (ntotal = 0 /\ ret = NoResult /\ dpc = "done")
    /\ (ret # NoResult) => ntotal > 0

\* C12 witness: a worker-thread run over an empty dataset has ended with
\* the division error, its handler restored.
C12_Witness ==
    /\ devN = 0
    /\ num_threads >= 2
    /\ dpc = "done"
    /\ sigint = "previous"
    /\ raised = <<"ZeroDivisionError", None>>

\* C13: a create_or_load_study on a study whose candidates were persisted
\* by an earlier call generates nothing, leaves the persisted candidates
\* and the trials as they are, and, when it returns, leaves the controller
\* with the persisted pools; whatever was asked or told in between, also
\* nothing.
C13_SecondCallSamePools ==
    [][
        (/\ ocall'.op = "create_or_load_study"
         /\ storage = "RDBStorage"
         /\ user_attrs.keys # {})
            => /\ generations' = 0
               /\ user_attrs' = user_attrs
               /\ trials' = trials
               /\ (oret' # NoResult)
                     => /\ instruction_candidates' = LoadPrompts(user_attrs.prompt_candidates)
                        /\ fewshot_candidates' = LoadItems(user_attrs.fewshot_candidates)
      ]_vars

\* C14: create_or_load_study raises ValueError when the storage is not set
\* up, and, for a study without trials, when the trainset is None or empty
\* or the task description is missing; a call that raises has called no
\* proposer, written no attribute, asked no trial and changed no pool.
C14_FailFast ==
    [][
        (ocall'.op = "create_or_load_study")
            => /\ (storage = "None")
                     => /\ oraised' = <<"ValueError", "Storage is not set up.">>
                        /\ study_exists' = study_exists
               /\ (/\ storage = "RDBStorage"
                   /\ trials = << >>
                   /\ (ocall'.trainset.none \/ ocall'.trainset.items = << >>))
                     => oraised' = <<"ValueError", "Trainset is required for a new study.">>
               /\ (/\ storage = "RDBStorage"
                   /\ trials = << >>
                   /\ ~ocall'.trainset.none
                   /\ ocall'.trainset.items # << >>
                   /\ ~ocall'.task_description)
                     => oraised' = <<"ValueError",
                                     "Task description is required for a new study.">>
               /\ (oraised' # NoException)
                     => /\ oret' = NoResult
                        /\ generations' = 0
                        /\ user_attrs' = user_attrs
                        /\ trials' = trials
                        /\ instruction_candidates' = instruction_candidates
                        /\ fewshot_candidates' = fewshot_candidates
                        /\ handle' = handle
      ]_vars

\* C14 witness: a call for a study without trials was given an empty
\* trainset and raised, the study having no attribute and no trial.
C14_Witness ==
    /\ ocall.op = "create_or_load_study"
    /\ ~ocall.trainset.none
    /\ ocall.trainset.items = << >>
    /\ ocall.task_description
    /\ oraised = <<"ValueError", "Trainset is required for a new study.">>
    /\ study_exists
    /\ user_attrs = NoAttrs
    /\ trials = << >>

\* C15: suggest_next_prompt, complete_trial and get_best_prompt leave both
\* candidate pools and the persisted candidates as they are, and every
\* trial's instruction choice and few-shot choice are indices of the pools.
C15_PoolsFixed ==
    [][
        (ocall'.op \in {"suggest_next_prompt", "complete_trial", "get_best_prompt"})
            => /\ instruction_candidates' = instruction_candidates
               /\ fewshot_candidates' = fewshot_candidates
               /\ user_attrs' = user_attrs
               /\ \A k \in 1 .. Len(trials') :
                     /\ trials'[k].instruction \in 0 .. Len(instruction_candidates') - 1
                     /\ trials'[k].fewshot \in 0 .. Len(fewshot_candidates') - 1
      ]_vars

\* C16: when create_or_load_study has returned with is_new_study true, the
\* controller's few-shot pool holds the items of the trainset of the call,
\* as the persisted fewshot_candidates do.
C16_NewStudyFewshotPool ==
    (ocall.op = "create_or_load_study" /\ oret # NoResult /\ oret.is_new_study)
        => /\ Len(fewshot_candidates) = Len(ocall.trainset.items)
           /\ \A k \in 1 .. Len(fewshot_candidates) :
                 fewshot_candidates[k].data = ocall.trainset.items[k].data
           /\ fewshot_candidates = LoadItems(user_attrs.fewshot_candidates)

\* C17: suggest_next_prompt adds one trial, pending, without a score, with
\* an instruction index and a few-shot index; complete_trial moves the
\* trial it names, and no other, from pending to scored with the score
\* given; a scored trial stays as it is; no call removes a trial or changes
\* the choices of one, a restart of the process included.
C17_AskThenTell ==
    [][
        /\ (ocall'.op = "suggest_next_prompt")
              => /\ Len(trials') = Len(trials) + 1
                 /\ trials'[Len(trials')].state = "RUNNING"
                 /\ trials'[Len(trials')].value = None
                 /\ trials'[Len(trials')].instruction # None
                 /\ trials'[Len(trials')].fewshot # None
        /\ (ocall'.op # "suggest_next_prompt") => Len(trials') = Len(trials)
        /\ (ocall'.op = "complete_trial" /\ oret' # NoResult)
              => /\ trials[ocall'.trial + 1].state = "RUNNING"
                 /\ trials' = [trials EXCEPT ![ocall'.trial + 1].state = "COMPLETE",
                                             ![ocall'.trial + 1].value = ocall'.score]
        /\ \A k \in 1 .. Len(trials) :
              /\ trials'[k].instruction = trials[k].instruction
              /\ trials'[k].fewshot = trials[k].fewshot
              /\ (trials[k].state = "COMPLETE") => trials'[k] = trials[k]
              /\ (trials[k].state = "RUNNING") => trials[k].value = None
              /\ (trials'[k] # trials[k]) => ocall'.op = "complete_trial"
      ]_vars

\* C18: when a trial has been told, get_best_prompt returns the prompt of
\* a told trial whose score no told trial exceeds: the messages of the
\* instruction candidate of that trial's instruction index, with the
\* few-shot candidate of that trial's few-shot index as its fewshot.
C18_BestPrompt ==
    (ocall.op = "get_best_prompt")
        => /\ (oret # NoResult) <=> (\E k \in 1 .. Len(trials) : trials[k].state = "COMPLETE")
           /\ (oret # NoResult)
                 => \E k \in 1 .. Len(trials) :
                       /\ trials[k].state = "COMPLETE"
                       /\ \A u \in 1 .. Len(trials) :
                             trials[u].state = "COMPLETE" => trials[u].value <= trials[k].value
                       /\ oret.prompt.messages =
                             instruction_candidates[trials[k].instruction + 1].messages
                       /\ oret.prompt.fewshot = fewshot_candidates[trials[k].fewshot + 1]
                       /\ instruction_candidates[trials[k].instruction + 1].messages =
                             user_attrs.prompt_candidates[trials[k].instruction + 1][2]

\* C18 witness: get_best_prompt returned while one trial was pending and
\* two were told, the earlier with the higher score and another choice.
C18_Witness ==
    /\ ocall.op = "get_best_prompt"
    /\ oret # NoResult
    /\ Len(trials) = 3
    /\ trials[1].state = "RUNNING"
    /\ trials[2].state = "COMPLETE"
    /\ trials[3].state = "COMPLETE"
    /\ trials[2].value > trials[3].value
    /\ trials[2].instruction # trials[3].instruction
    /\ trials[2].fewshot # trials[3].fewshot

\* C19: the reporter is called once for every result, never for the same
\* item twice, the k-th call for the k-th task that completed, with
\* ntotal = k and ncorrect the sum of the k scores reported so far; it is
\* never called with ntotal = 0.
C19_ProgressInCompletionOrder ==
    /\ Len(progress) = Len(reordered_devset)
    /\ \A k \in 1 .. Len(progress) :
          /\ progress[k].ntotal = k
          /\ progress[k].ncorrect = Accumulate(SubSeq(reordered_devset, 1, k), 0)
          /\ progress[k].item = reordered_devset[k][1]
          /\ progress[k].item = completed[k]
    /\ \A k, l \in 1 .. Len(progress) : progress[k].item = progress[l].item => k = l

\* the i-th row of the report and of the lists returned: that of item i
ItemRow(i) == [example |-> wres[i][2], prediction |-> wres[i][3], correct |-> wres[i][4]]

\* C20: the table has one row per dataset item, the row of item i at
\* position i; with return_all_scores the last value returned lists the
\* score of item i at position i; with return_outputs the second value
\* returned lists the (example, prediction, score) of item i at position i;
\* the first value returned is the average.
C20_RowsInIndexOrder ==
    (ret # NoResult)
        => /\ ret.result_df = [k \in 1 .. devN |-> ItemRow(k - 1)]
           /\ ret.returned[1] = ret.average
           /\ Len(ret.returned) = 1 + (IF return_all_scores THEN 1 ELSE 0)
                                    + (IF return_outputs THEN 1 ELSE 0)
           /\ return_all_scores
                 => ret.returned[Len(ret.returned)] = [k \in 1 .. devN |-> wres[k - 1][4]]
           /\ return_outputs
                 => ret.returned[2] =
                       [k \in 1 .. devN |-> <<wres[k - 1][2], wres[k - 1][3], wres[k - 1][4]>>]

\* C20 witness: a run with both flags set returned, its three results
\* having arrived last item first and carrying different scores.
C20_Witness ==
    /\ ret # NoResult
    /\ devN = 3
    /\ return_all_scores
    /\ return_outputs
    /\ results[1][1] = 2
    /\ results[3][1] = 0
    /\ wres[0][4] # wres[2][4]
    /\ Len(ret.returned) = 3

\* C21: the error budget over the calls made on one instance.  The
\* placeholder results returned over all the calls are at most
\* max_errors - 1; the counter never decreases, so the failures of an
\* earlier call count in a later one; and an item whose worker has not
\* failed yet when the counter has reached max_errors never gets a
\* placeholder result: its failure is fatal.
C21_ErrorBudgetAcrossCalls ==
    /\ [](recorded + Cardinality(Placeholders) <= max_errors - 1)
    /\ [][error_count' >= error_count]_vars
    /\ [](\A i \in Items : wpc[i] = "raised" => wcur[i] >= max_errors)
    /\ \A i \in 0 .. MaxN - 1 :
          []((i \in Items /\ wpc[i] \in {"gate", "prompt"} /\ error_count >= max_errors)
                => [](i \in Items => wres[i] # PlaceholderResult(i)))
    /\ [][
          (error_count >= max_errors /\ stale' < stale) => recorded' = recorded
       ]_vars

\* a later call is aborted by its first failure because of the failures of
\* the call before, some of them recorded as placeholder results
C21_Witness ==
    /\ calls = 2
    /\ recorded > 0
    /\ \E i \in Items :
          /\ wpc[i] = "raised"
          /\ {j \in Items : wcur[j] > 0} = {i}
    /\ max_errors > 1
    /\ dpc = "done"
    /\ raised # NoException

\* C22: the cancellation flag of a worker-thread call.  While the call runs
\* the flag, once set, stays set; the call starts with the flag unset,
\* whatever the call before left; and the flag is set during a call only
\* by a SIGINT delivered during that call.
C22_FlagMonotonicAndFresh ==
    /\ [][
          (cancel_jobs /\ dpc = "as_completed") => cancel_jobs'
       ]_vars
    /\ [][
          (dpc = "start" /\ dpc' # "start") => (dpc' = "as_completed" /\ ~cancel_jobs')
       ]_vars
    /\ []((dpc = "as_completed" /\ cancel_jobs) => interrupts > 0)

\* the call before was cancelled, and the call that runs now has handed an
\* item to the pool: its flag is not set
C22_Witness ==
    /\ calls = 2
    /\ dpc = "as_completed"
    /\ ~cancel_jobs
    /\ prev_calls > 0
    /\ \E i \in Items : wpc[i] = "queued"

C24_NewExactlyWithoutTrials ==
    [][
        (ocall'.op = "create_or_load_study" /\ storage = "RDBStorage")
            => /\ trials' = trials
               /\ (Len(trials) = 0)
                     => \/ /\ oraised' # NoException
                           /\ TrainsetMissing(ocall'.trainset) \/ ~ocall'.task_description
                           /\ generations' = 0
                           /\ user_attrs' = user_attrs
                        \/ /\ oret' = [is_new_study |-> TRUE]
                           /\ ~TrainsetMissing(ocall'.trainset)
                           /\ ocall'.task_description
                           /\ generations' = 1
                           /\ user_attrs'.keys = {"prompt_candidates", "fewshot_candidates"}
                           /\ user_attrs'.prompt_candidates = DumpPrompts(instruction_candidates')
                           /\ user_attrs'.fewshot_candidates = DumpItems(ocall'.trainset.items)
               /\ (Len(trials) > 0)
                     => /\ oret' = [is_new_study |-> FALSE]
                        /\ generations' = 0
                        /\ user_attrs' = user_attrs
                        /\ instruction_candidates' = LoadPrompts(user_attrs.prompt_candidates)
                        /\ fewshot_candidates' = LoadItems(user_attrs.fewshot_candidates)
      ]_vars

\* a call found the candidate attributes persisted and no trial, and
\* generated the candidates again
C24_Witness ==
    /\ ocall.op = "create_or_load_study"
    /\ ocall.found = {"prompt_candidates", "fewshot_candidates"}
    /\ oret = [is_new_study |-> TRUE]
    /\ generations = 1
    /\ trials = << >>

\* C25: the prompt the caller holds for a trial that has not been told is
\* the (instruction, few-shot) pair of that trial: its messages are those
\* of the candidate at the trial's instruction index and its few-shot set
\* is the candidate at the trial's few-shot index, whatever further
\* suggest_next_prompt and get_best_prompt calls were made.
C25_ReturnedPromptKeepsPair ==
    \A t \in DOMAIN held :
       (trials[t + 1].state = "RUNNING")
          => /\ held[t].prompt.messages
                   = LoadPrompts(user_attrs.prompt_candidates)[trials[t + 1].instruction + 1].messages
             /\ held[t].prompt.fewshot
                   = LoadItems(user_attrs.fewshot_candidates)[trials[t + 1].fewshot + 1]

\* C26: once the create_or_load_study calls of both processes have
\* returned, both hold the same pool of instruction candidates, and it is
\* the pool persisted under prompt_candidates.
C26_SamePoolInBothProcesses ==
    (\A p \in Processes : procs[p].pc \in {"ready", "asked"})
       => \A p \in Processes :
             procs[p].instruction_candidates = LoadPrompts(user_attrs.prompt_candidates)

\* C27: every run ends; in cooperative mode every item is admitted through
\* the gate and no permit is lost; and the run ends by returning an
\* aggregate, by raising the exception of the fatal item, or by raising
\* KeyboardInterrupt.
C27_EveryRunTerminates ==
    /\ <>(dpc = "done")
    /\ \A i \in 0 .. MaxN - 1 : <>(num_threads = 1 /\ i \in Items => i \in invoked)
    /\ []((num_threads = 1 /\ \A i \in Items : wpc[i] \in {"gate", "done", "raised"})
            => sem = batch_size)
    /\ []((dpc = "done")
            => \/ ret # NoResult
               \/ \E i \in Items : raised = ItemException(i)
               \/ raised = <<"KeyboardInterrupt", None>>)

\* C28: in cooperative mode the step in which the exception of a fatal
\* item leaves the dispatcher changes no worker and nothing of the
\* instance; after it, a worker waiting at the gate is admitted as soon as
\* a permit is free, a worker in the prompt call returns or fails, and a
\* worker that failed takes the lock and increments the counter.
C28_AbortLeavesWorkersRunning ==
    /\ [][
          (dpc = "gather" /\ dpc' = "done")
             => /\ raised' = ItemException(gather_exc)
                /\ UNCHANGED <<tasks, instance>>
       ]_vars
    /\ []((dpc = "done")
            => \A i \in Items :
                  /\ (wpc[i] = "gate" /\ GateOpen) => ENABLED Admit(i)
                  /\ (wpc[i] = "prompt") => (ENABLED Succeed(i) /\ ENABLED Fail(i))
                  /\ (wpc[i] = "except" /\ LockFree) => ENABLED Acquire(i)
                  /\ (wpc[i] = "increment") => ENABLED Increment(i))
    /\ [][
          (dpc = "done" /\ error_count' # error_count) => error_count' = error_count + 1
       ]_vars

\* the run has aborted; one of its workers is about to increment the
\* counter, which has passed max_errors already, and another one waits at
\* the gate with a permit free
C28_Witness ==
    /\ dpc = "done"
    /\ \E j \in Items : raised = ItemException(j)
    /\ error_count >= max_errors
    /\ \E i, k \in Items :
          /\ wpc[i] = "increment"
          /\ wpc[k] = "gate"
          /\ GateOpen


\* the trials of the log that have a prompt_path
Qualifying == {k \in 1 .. Len(trial_logs) : trial_logs[k].prompt_path}

\* the distinct instructions of the qualifying trials
Instructions == {Instruction(trial_logs[k].messages) : k \in Qualifying}

\* the sum of the scores of a set of trials
RECURSIVE ScoreSum(_)
ScoreSum(numbers) ==
    IF numbers = {} THEN 0
    ELSE LET number == CHOOSE k \in numbers : TRUE
         IN  trial_logs[number].score + ScoreSum(numbers \ {number})

\* the arithmetic mean of the scores of the trials of an instruction
Mean(instruction) ==
    LET numbers == {k \in Qualifying : Instruction(trial_logs[k].messages) = instruction}
    IN  Quotient(ScoreSum(numbers), Cardinality(numbers))

\* C29: the string create_history_string returns has one entry per shown
\* instruction; every entry is an instruction of a trial that has a
\* prompt_path and carries the arithmetic mean of the scores of the trials
\* of that instruction; no instruction is shown twice; there are top_n
\* entries, or one per instruction if those are fewer; no instruction left
\* out has a higher mean than one shown; the means ascend, so the best
\* instruction is last; and without a qualifying trial the string is empty.
C29_TopMeansAscending ==
    history.returned =>
        LET entries == history.value
            shown == {entries[k][1] : k \in 1 .. Len(entries)}
        IN  /\ Len(entries) <= top_n
            /\ Len(entries) = top_n \/ Len(entries) = Cardinality(Instructions)
            /\ \A k \in 1 .. Len(entries) :
                   /\ entries[k][1] \in Instructions
                   /\ entries[k][3] = Mean(entries[k][1])
            /\ \A k, l \in 1 .. Len(entries) :
                   k < l => /\ entries[k][1] # entries[l][1]
                            /\ ~Less(entries[l][3], entries[k][3])
            /\ \A instruction \in Instructions \ shown :
                   \A k \in 1 .. Len(entries) : ~Less(entries[k][3], Mean(instruction))
            /\ (Qualifying = {} => entries = << >>)

\* three instructions, one of them with two trials of different scores;
\* the two best are shown, the better one last
C29_Witness ==
    /\ history.returned
    /\ top_n = 2
    /\ Cardinality(Instructions) = 3
    /\ Len(history.value) = 2
    /\ Less(history.value[1][3], history.value[2][3])
    /\ history.value[1][3] = <<1, 2>>

====
